---- MODULE Spec2Model ----
(***************************************************************************)
(* Model of src/main.js: an HTTP file cache.  Paths /DDD name files        *)
(* <cache>/DDD.jpeg; GET streams the file, PUT buffers the request body    *)
(* and writes it with fs.writeFile, DELETE unlinks the file.               *)
(*                                                                         *)
(* The file system is modelled at the level the code uses it: a directory  *)
(* maps a path to an inode, an open file is a reference to an inode with   *)
(* a position of its own, open(path, 'w') truncates the inode the path     *)
(* names, write puts bytes at the descriptor's position, unlink removes    *)
(* the directory entry and leaves the inode to the descriptors that still  *)
(* hold it.  Every asynchronous completion (an await, a stream event) is   *)
(* one action, so requests interleave where the event loop lets them.      *)
(***************************************************************************)
EXTENDS Integers, Sequences, FiniteSets, TLC

VARIABLES phase, mkdir, cacheDir, exitCode, conns, file, ino, hist, served,
          tally

vars == <<phase, mkdir, cacheDir, exitCode, conns, file, ino, hist, served,
          tally>>

(* ------------------------------ bounds -------------------------------- *)

\* requests in flight at the same time
MaxInFlight == 2

\* requests the server receives in one run
MaxRequests == 3

\* longest request body, in bytes
MaxBody == 2

\* bytes one read of the read stream delivers
ReadChunk == 1

\* bytes one write call of fs.writeFile puts
WriteChunk == 1

(* --------------------------- input domains ---------------------------- *)

Digits == {"0", "1", "2", "3", "4", "5", "6", "7", "8", "9"}

Methods == {"GET", "PUT", "DELETE", "PATCH", "POST", "HEAD"}

Urls ==
    { <<"/", "2", "0", "0">>,
      <<"/", "4", "0", "4">>,
      <<"/", "4">>,
      <<"/", "1", "2", "3", "4">>,
      <<"/", "a", "b", "c">>,
      <<"/">>,
      <<"/", "2", "0", "0", "?", "x", "=", "1">> }

Slots == 1..MaxInFlight

\* The request bodies: the empty one and, for each length n, n bytes of value
\* n.  Two of them differ in every byte and in length, so a file that mixes
\* two bodies, keeps the tail of an older one or holds a prefix of one is
\* none of them.  0 is the byte of a hole.
Bodies == { [k \in 1..n |-> n] : n \in 0..MaxBody }

Min(a, b) == IF a < b THEN a ELSE b

(* ------------------------- pure functions ----------------------------- *)

\* the value of a failed match
Null == <<>>

getHttpCodeFromUrlUnanchored(url) ==
    IF /\ Len(url) >= 4
       /\ url[1] = "/"
       /\ \A k \in 2..4 : url[k] \in Digits
    THEN SubSeq(url, 2, 4)
    ELSE Null

\* url.match(/^\/(\d{3})$/): the whole string is a slash and three digits;
\* the result is the group of digits, or null
getHttpCodeFromUrl(url) ==
    IF /\ Len(url) = 4
       /\ url[1] = "/"
       /\ \A k \in 2..4 : url[k] \in Digits
    THEN SubSeq(url, 2, 4)
    ELSE Null

\* path.join(options.cache, `${code}.jpeg`), relative to the cache directory
getCacheFilePath(code) == code \o <<".jpeg">>

Codes == { getHttpCodeFromUrl(u) : u \in Urls } \ {Null}

Paths == { getCacheFilePath(c) : c \in Codes }

\* Inodes are named so that the inode a path names is always the same
\* number: unlink moves the inode of a file that is still open to a number
\* above these, and the descriptors with it.
PathSeq == CHOOSE s \in [1..Cardinality(Paths) -> Paths] :
    \A a, b \in 1..Cardinality(Paths) : a # b => s[a] # s[b]

InoOf(p) == CHOOSE k \in 1..Cardinality(Paths) : PathSeq[k] = p

Inos == 1..(Cardinality(Paths) + MaxInFlight)

Orphans == (Cardinality(Paths) + 1)..(Cardinality(Paths) + MaxInFlight)

RouteAnyWrite(method) ==
    CASE method = "GET" -> "handleGet"
      [] method \in {"PUT", "PATCH"} -> "handlePut"
      [] method = "DELETE" -> "handleDelete"
      [] OTHER -> "default"

\* switch (req.method)
Route(method) ==
    CASE method = "GET" -> "handleGet"
      [] method = "PUT" -> "handlePut"
      [] method = "DELETE" -> "handleDelete"
      [] OTHER -> "default"

(* ---------------------------- a request ------------------------------- *)

\* A slot holds one request and its response object.  body is the body the
\* client sends and chunks the part of it that has arrived.  quiet is history
\* a handler never reads: a GET began on a settled entry and no PUT or DELETE
\* on its code has started since.  Of a GET or DELETE: base, the bytes of the
\* settled entry it began on, or of the one that the only PUT or DELETE then in flight had
\* started on (<<>> when there was none); race, the method of the only PUT or
\* DELETE on its code in flight beside it so far, "many" for more than one.
Idle ==
    [ pc |-> "idle", method |-> "", url |-> <<>>, code |-> <<>>,
      status |-> 0, ctype |-> "", xcache |-> "", text |-> <<>>,
      data |-> <<>>, ended |-> FALSE, thrown |-> FALSE,
      body |-> <<>>, chunks |-> <<>>, fd |-> 0, pos |-> 0, err |-> "",
      quiet |-> FALSE, base |-> <<>>, race |-> "" ]

headersSent(r) == r.status # 0

\* res.writeHead(status, headers): throws ERR_HTTP_HEADERS_SENT when the
\* headers are already set
writeHead(r, status, ctype, xcache) ==
    IF headersSent(r)
    THEN [r EXCEPT !.thrown = TRUE]
    ELSE [r EXCEPT !.status = status, !.ctype = ctype, !.xcache = xcache]

\* res.end(text): the handler is finished with the response
end(r, text) ==
    IF r.thrown
    THEN [r EXCEPT !.pc = "done"]
    ELSE [r EXCEPT !.text = text, !.ended = TRUE, !.pc = "done"]

\* a finished request keeps its response and nothing of its working state
Finish(r) ==
    [r EXCEPT !.chunks = <<>>, !.fd = 0, !.pos = 0]

InFlight(r) == r.pc \notin {"idle", "done"}

\* The response of a finished request is on its way and its slot is freed
\* before the event loop runs anything else: nothing in the program reads a
\* finished request.
Running == phase = "Serving" /\ \A j \in 1..MaxInFlight : conns[j].pc # "done"

Mutating(r) == InFlight(r) /\ r.method \in {"PUT", "DELETE"}

\* another PUT or DELETE on code c is in flight beside slot i
OthersOn(cs, i, c) ==
    \E j \in Slots \ {i} : Mutating(cs[j]) /\ cs[j].code = c

(* -------------------------- the file system --------------------------- *)

\* hist[c] is history no handler reads.  kind "put" or "del": the last PUT
\* (201, of body) or DELETE (200) on c has completed and no PUT or DELETE on
\* c has been in flight since; clean: no other PUT or DELETE on c was in
\* flight with it; over: that PUT started on a settled, clean entry of other
\* bytes.  kind "none": a PUT or DELETE on c is or was in flight; body and
\* over then keep the settled entry it started on.
NoEntry == [kind |-> "none", body |-> <<>>, clean |-> FALSE, over |-> FALSE]

\* a PUT or DELETE on c starts in slot i
Started(h, cs, i, c) ==
    IF OthersOn(cs, i, c)
    THEN [h EXCEPT ![c] = NoEntry]
    ELSE [h EXCEPT ![c] =
             [kind |-> "none",
              body |-> IF h[c].kind = "put" /\ h[c].clean THEN h[c].body ELSE <<>>,
              clean |-> TRUE,
              over |-> h[c].kind = "put" /\ h[c].clean]]

\* the PUT in slot i completes with 201 having stored body
SettledPut(h, cs, i, c, body) ==
    IF OthersOn(cs, i, c)
    THEN h
    ELSE [h EXCEPT ![c] =
             [kind |-> "put", body |-> body, clean |-> h[c].clean,
              over |-> h[c].over /\ h[c].body # body]]

\* the DELETE in slot i completes with 200
SettledDelete(h, cs, i, c) ==
    IF OthersOn(cs, i, c)
    THEN h
    ELSE [h EXCEPT ![c] =
             [kind |-> "del", body |-> <<>>, clean |-> h[c].clean, over |-> FALSE]]

Referenced(f, cs, n) ==
    \/ \E p \in Paths : f[p] = n
    \/ \E j \in Slots : cs[j].fd = n

\* an inode no directory entry and no descriptor refers to is gone
Gc(f, cs, content) ==
    [n \in Inos |-> IF Referenced(f, cs, n) THEN content[n] ELSE <<>>]

FreeOrphan == CHOOSE n \in Orphans :
    /\ ~Referenced(file, conns, n)
    /\ \A m \in Orphans : ~Referenced(file, conns, m) => n <= m

Zeros(n) == [k \in 1..n |-> 0]

\* write(fd, bytes) at position pos: a position beyond the end leaves a hole
WriteAt(content, pos, bytes) ==
    LET padded == IF Len(content) < pos
                  THEN content \o Zeros(pos - Len(content))
                  ELSE content
    IN  SubSeq(padded, 1, pos) \o bytes
          \o SubSeq(padded, pos + Len(bytes) + 1, Len(padded))

(* ------------------------------ startup ------------------------------- *)

Init ==
    /\ phase = "Initializing"
    /\ mkdir = "pending"
    /\ cacheDir = FALSE
    /\ exitCode = -1
    /\ conns = [i \in Slots |-> Idle]
    /\ file = [p \in Paths |-> 0]
    /\ ino = [n \in Inos |-> <<>>]
    /\ hist = [c \in Codes |-> NoEntry]
    /\ served = 0
    /\ tally = [c \in Codes |-> [put |-> 0, del |-> 0]]

setupCacheNoExit(outcome) ==
    /\ phase = "Initializing"
    /\ mkdir = "pending"
    /\ mkdir' = outcome
    /\ cacheDir' = IF outcome = "ok" THEN TRUE ELSE cacheDir
    /\ UNCHANGED <<phase, exitCode, conns, file, ino, hist, served, tally>>

\* setupCache: await fs.mkdir(cache, {recursive: true}); on an error
\* process.exit(1)
setupCache(outcome) ==
    /\ phase = "Initializing"
    /\ mkdir = "pending"
    /\ mkdir' = outcome
    /\ IF outcome = "ok"
       THEN /\ cacheDir' = TRUE
            /\ UNCHANGED <<phase, exitCode>>
       ELSE /\ phase' = "Exited"
            /\ exitCode' = 1
            /\ UNCHANGED cacheDir
    /\ UNCHANGED <<conns, file, ino, hist, served, tally>>

\* startServer after `await setupCache()`: createServer and listen
startServer ==
    /\ phase = "Initializing"
    /\ mkdir # "pending"
    /\ phase' = "Serving"
    /\ UNCHANGED <<mkdir, cacheDir, exitCode, conns, file, ino, hist, served,
                   tally>>

(* ------------------------------ requests ------------------------------ *)

TextInvalidUrl == <<"Invalid URL format. Use /XXX where XXX is a 3-digit HTTP code.">>

TextNotAllowed == <<"Method Not Allowed">>

\* a PUT or DELETE on code c starts: a GET in flight on c no longer reads a
\* settled entry
Disturb(cs, c, method) ==
    [j \in Slots |->
        IF InFlight(cs[j]) /\ cs[j].code = c
        THEN IF cs[j].method \in {"GET", "DELETE"}
             THEN [cs[j] EXCEPT !.quiet = FALSE,
                                !.race = IF @ = "" THEN method ELSE "many"]
             ELSE [cs[j] EXCEPT !.quiet = FALSE]
        ELSE cs[j]]

MutatorsOn(cs, c) == {j \in Slots : Mutating(cs[j]) /\ cs[j].code = c}

\* what a GET or DELETE on c that starts now is told of the entry and of its rivals
BaseAt(h, cs, c) ==
    IF /\ h[c].clean
       /\ \/ h[c].kind = "put" /\ MutatorsOn(cs, c) = {}
          \/ h[c].kind = "none" /\ h[c].over /\ Cardinality(MutatorsOn(cs, c)) = 1
    THEN h[c].body
    ELSE <<>>

RaceAt(cs, c) ==
    IF MutatorsOn(cs, c) = {} THEN ""
    ELSE IF Cardinality(MutatorsOn(cs, c)) = 1
    THEN cs[CHOOSE j \in MutatorsOn(cs, c) : TRUE].method
    ELSE "many"

\* the requests on code c that this step finishes with the given answer
Answered(cs, c, method, status) ==
    Cardinality({ j \in Slots : /\ conns[j].pc # "done"
                                /\ cs[j].pc = "done"
                                /\ cs[j].method = method
                                /\ cs[j].code = c
                                /\ cs[j].status = status })

\* an uncaught exception or unhandled rejection ends the process; tally is
\* history: the 201 answers to PUT and the 200 answers to DELETE, per code
Effect(cs, f, content, h) ==
    /\ conns' = cs
    /\ file' = f
    /\ ino' = Gc(f, cs, content)
    /\ hist' = h
    /\ tally' = [c \in Codes |->
                    [put |-> tally[c].put + Answered(cs, c, "PUT", 201),
                     del |-> tally[c].del + Answered(cs, c, "DELETE", 200)]]
    /\ IF \E j \in Slots : cs[j].thrown
       THEN phase' = "Crashed" /\ exitCode' = 1
       ELSE UNCHANGED <<phase, exitCode>>
    /\ UNCHANGED <<mkdir, cacheDir>>

\* a step of a request in flight
Commit(cs, f, content, h) == Effect(cs, f, content, h) /\ UNCHANGED served

\* a step that takes a new request in
Accept(cs, f, content, h) == Effect(cs, f, content, h) /\ served' = served + 1

\* fs.createReadStream(path) throws at once only for a path that is no valid
\* argument (one holding a null byte); a missing file is reported later, by
\* the stream's 'error' event
PathArgValid(path) == \A k \in 1..Len(path) : path[k] # "\\0"

\* handleGet, lines 55-65: the catch of a synchronous throw
handleGetCatch(r, errCode) ==
    IF errCode = "ENOENT"
    THEN end(writeHead(r, 404, "text/plain", ""),
             <<"Not Found: Image for code ">> \o r.code \o <<" not in cache.">>)
    ELSE end(writeHead(r, 500, "text/plain", ""),
             <<"Internal Server Error while reading from cache.">>)

\* handleGet, lines 36-43: create the stream, write the 200 head, pipe.  The
\* file is opened later, by the stream
handleGet(r) ==
    IF PathArgValid(getCacheFilePath(r.code))
    THEN [writeHead(r, 200, "image/jpeg", "HIT") EXCEPT !.pc = "open"]
    ELSE handleGetCatch([r EXCEPT !.err = "ERR_INVALID_ARG_VALUE"],
                        "ERR_INVALID_ARG_VALUE")

\* handlePut, lines 69-73: start reading the request body
handlePut(r, body) == [r EXCEPT !.pc = "body", !.body = body]

\* handleDelete, lines 104-107: fs.unlink is issued
handleDelete(r) == [r EXCEPT !.pc = "unlink"]

\* the request listener, lines 128-153, run for one incoming request
Request(i, method, url, body) ==
    /\ Running
    /\ served < MaxRequests
    /\ conns[i].pc = "idle"
    /\ \A j \in Slots : j < i => conns[j].pc # "idle"
    /\ LET httpCode == getHttpCodeFromUrl(url)
           req == [Idle EXCEPT !.method = method, !.url = url, !.code = httpCode]
           handler == Route(method)
       IN  IF httpCode = Null
           THEN Accept([conns EXCEPT ![i] =
                           end(writeHead([req EXCEPT !.code = Null],
                                         404, "text/plain", ""),
                               TextInvalidUrl)],
                       file, ino, hist)
           ELSE CASE handler = "handleGet" ->
                       Accept([conns EXCEPT ![i] =
                                  handleGet([req EXCEPT
                                      !.quiet = hist[httpCode].kind # "none",
                                      !.base = BaseAt(hist, conns, httpCode),
                                      !.race = RaceAt(conns, httpCode)])],
                              file, ino, hist)
                  [] handler = "handlePut" ->
                       Accept([Disturb(conns, httpCode, method) EXCEPT ![i] =
                                  handlePut(req, body)],
                              file, ino, Started(hist, conns, i, httpCode))
                  [] handler = "handleDelete" ->
                       Accept([Disturb(conns, httpCode, method) EXCEPT ![i] =
                                  handleDelete([req EXCEPT
                                      !.base = BaseAt(hist, conns, httpCode),
                                      !.race = RaceAt(conns, httpCode)])],
                              file, ino, Started(hist, conns, i, httpCode))
                  [] OTHER ->
                       Accept([conns EXCEPT ![i] =
                                  end(writeHead(req, 405, "text/plain", ""),
                                      TextNotAllowed)],
                              file, ino, hist)

\* the connection of a finished request goes away
Close(i) ==
    /\ phase = "Serving"
    /\ conns[i].pc = "done"
    /\ Commit([conns EXCEPT ![i] = Idle], file, ino, hist)

(* -------------------------------- GET --------------------------------- *)

streamErrorUnchecked(r, e) ==
    LET q == [r EXCEPT !.err = e]
    IN  Finish(end(writeHead(q, 500, "text/plain", ""),
                   <<"Internal Server Error during file streaming.">>))

\* readStream.on('error'), lines 45-53
streamError(r, e) ==
    LET q == [r EXCEPT !.err = e]
    IN  IF ~headersSent(q)
        THEN Finish(end(writeHead(q, 500, "text/plain", ""),
                        <<"Internal Server Error during file streaming.">>))
        ELSE Finish(end(q, q.text))

\* the read stream opens the file: ENOENT when the path names nothing,
\* otherwise a descriptor on the inode, or another error of open
GetOpen(i, outcome) ==
    LET r == conns[i]
        path == getCacheFilePath(r.code)
    IN  /\ Running
        /\ r.pc = "open"
        /\ IF file[path] = 0
           THEN /\ outcome = "ok"
                /\ Commit([conns EXCEPT ![i] = streamError(r, "ENOENT")],
                          file, ino, hist)
           ELSE IF outcome = "ok"
           THEN Commit([conns EXCEPT ![i] =
                           [r EXCEPT !.pc = "read", !.fd = file[path], !.pos = 0]],
                       file, ino, hist)
           ELSE Commit([conns EXCEPT ![i] = streamError(r, outcome)],
                       file, ino, hist)

\* one read of the stream: bytes piped to the response, or end of file and
\* res.end() by the pipe, or an error of read
GetRead(i, outcome) ==
    LET r == conns[i]
        content == ino[r.fd]
        upto == Min(r.pos + ReadChunk, Len(content))
    IN  /\ Running
        /\ r.pc = "read"
        /\ IF outcome # "ok"
           THEN Commit([conns EXCEPT ![i] = streamError(r, outcome)],
                       file, ino, hist)
           ELSE IF r.pos >= Len(content)
           THEN Commit([conns EXCEPT ![i] = Finish(end(r, r.text))],
                       file, ino, hist)
           ELSE Commit([conns EXCEPT ![i] =
                           [r EXCEPT !.data = r.data \o SubSeq(content, r.pos + 1, upto),
                                     !.pos = upto]],
                       file, ino, hist)

(* -------------------------------- PUT --------------------------------- *)

PutChunkWriteThrough(i) ==
    LET r == conns[i]
        path == getCacheFilePath(r.code)
        n == InoOf(path)
        byte == r.body[Len(r.chunks) + 1]
    IN  /\ Running
        /\ r.pc = "body"
        /\ Len(r.chunks) < Len(r.body)
        /\ Commit([conns EXCEPT ![i] = [r EXCEPT !.chunks = Append(r.chunks, byte)]],
                  [file EXCEPT ![path] = n],
                  [ino EXCEPT ![n] = r.chunks \o <<byte>>],
                  hist)

\* for await (const chunk of req): one chunk of the body arrives
PutChunk(i) ==
    LET r == conns[i]
    IN  /\ Running
        /\ r.pc = "body"
        /\ Len(r.chunks) < Len(r.body)
        /\ Commit([conns EXCEPT ![i] =
                      [r EXCEPT !.chunks = Append(r.chunks, r.body[Len(r.chunks) + 1])]],
                  file, ino, hist)

\* handlePut, lines 76-80: the body stream fails (the client went away)
PutBodyError(i) ==
    LET r == conns[i]
    IN  /\ Running
        /\ r.pc = "body"
        /\ Commit([conns EXCEPT ![i] =
                      Finish(end(writeHead([r EXCEPT !.err = "ECONNRESET"],
                                           500, "text/plain", ""),
                                 <<"Internal Server Error.">>))],
                  file, ino, hist)

handlePutBodyNoEmptyCheck(r) == [r EXCEPT !.pc = "wopen"]

handlePutBodyLastChunk(r) ==
    IF Len(r.chunks) = 0
    THEN Finish(end(writeHead(r, 400, "text/plain", ""),
                    <<"Bad Request: Image body is empty.">>))
    ELSE [r EXCEPT !.pc = "wopen", !.chunks = <<r.chunks[Len(r.chunks)]>>]

\* handlePut, lines 83-92: the body is complete and chunks is
\* Buffer.concat(chunks); an empty one is refused, any other is handed to
\* fs.writeFile
handlePutBody(r) ==
    IF Len(r.chunks) = 0
    THEN Finish(end(writeHead(r, 400, "text/plain", ""),
                    <<"Bad Request: Image body is empty.">>))
    ELSE [r EXCEPT !.pc = "wopen"]

PutBodyEnd(i) ==
    LET r == conns[i]
    IN  /\ Running
        /\ r.pc = "body"
        /\ Len(r.chunks) = Len(r.body)
        /\ Commit([conns EXCEPT ![i] = handlePutBody(r)], file, ino, hist)

writeFailedCreated(r, e) ==
    Finish(end(writeHead([r EXCEPT !.err = e], 201, "text/plain", ""),
               <<"Created: Image for code ">> \o r.code
                   \o <<" saved/replaced in cache.">>))

\* handlePut, lines 96-100: fs.writeFile rejected
writeFailed(r, e) ==
    Finish(end(writeHead([r EXCEPT !.err = e], 500, "text/plain", ""),
               <<"Internal Server Error while saving file.">>))

\* handlePut, lines 93-95: fs.writeFile resolved
writeDone(r) ==
    Finish(end(writeHead(r, 201, "text/plain", ""),
               <<"Created: Image for code ">> \o r.code
                   \o <<" saved/replaced in cache.">>))

OpenForAppend(content) == content

\* open(path, 'w') on an existing file: O_TRUNC empties it
OpenTruncate(content) == <<>>

\* fs.writeFile opens the path with flag 'w': the file is created, or the
\* inode the path names is emptied; or open fails
PutOpen(i, outcome) ==
    LET r == conns[i]
        path == getCacheFilePath(r.code)
        n == InoOf(path)
    IN  /\ Running
        /\ r.pc = "wopen"
        /\ IF outcome = "ok"
           THEN Commit([conns EXCEPT ![i] =
                           [r EXCEPT !.pc = "write", !.fd = n,
                                     !.pos = IF file[path] = 0 THEN 0
                                             ELSE Len(OpenTruncate(ino[n]))]],
                       [file EXCEPT ![path] = n],
                       [ino EXCEPT ![n] = IF file[path] = 0 THEN <<>>
                                          ELSE OpenTruncate(ino[n])],
                       hist)
           ELSE Commit([conns EXCEPT ![i] = writeFailed(r, outcome)],
                       file, ino, hist)

\* one write call of fs.writeFile at the descriptor's position; after the
\* last one the file is closed and the promise resolves; or write fails
PutWrite(i, outcome) ==
    LET r == conns[i]
        upto == Min(r.pos + WriteChunk, Len(r.chunks))
        content == WriteAt(ino[r.fd], r.pos, SubSeq(r.chunks, r.pos + 1, upto))
    IN  /\ Running
        /\ r.pc = "write"
        /\ IF outcome # "ok"
           THEN Commit([conns EXCEPT ![i] = writeFailed(r, outcome)],
                       file, ino, hist)
           ELSE IF upto < Len(r.chunks)
           THEN Commit([conns EXCEPT ![i] = [r EXCEPT !.pos = upto]],
                       file, [ino EXCEPT ![r.fd] = content], hist)
           ELSE Commit([conns EXCEPT ![i] = writeDone(r)],
                       file, [ino EXCEPT ![r.fd] = content],
                       SettledPut(hist, conns, i, r.code, r.body))

(* ------------------------------- DELETE ------------------------------- *)

handleDeleteDoneForce(r, errCode) ==
    IF errCode \in {"", "ENOENT"}
    THEN end(writeHead(r, 200, "text/plain", ""),
             <<"OK: Image for code ">> \o r.code \o <<" deleted from cache.">>)
    ELSE end(writeHead(r, 500, "text/plain", ""),
             <<"Internal Server Error while deleting file.">>)

\* handleDelete, lines 109-121: fs.unlink resolved (errCode "") or rejected
handleDeleteDone(r, errCode) ==
    IF errCode = ""
    THEN end(writeHead(r, 200, "text/plain", ""),
             <<"OK: Image for code ">> \o r.code \o <<" deleted from cache.">>)
    ELSE IF errCode = "ENOENT"
    THEN end(writeHead(r, 404, "text/plain", ""),
             <<"Not Found: Image not in cache.">>)
    ELSE end(writeHead(r, 500, "text/plain", ""),
             <<"Internal Server Error while deleting file.">>)

\* fs.unlink(path): ENOENT when the path names nothing; otherwise the
\* directory entry is removed, or unlink fails with another error
DeleteUnlink(i, outcome) ==
    LET r == conns[i]
        path == getCacheFilePath(r.code)
        n == InoOf(path)
        open == \E j \in Slots : conns[j].fd = n
        moved == [j \in Slots |->
                    IF conns[j].fd = n
                    THEN [conns[j] EXCEPT !.fd = FreeOrphan]
                    ELSE conns[j]]
    IN  /\ Running
        /\ r.pc = "unlink"
        /\ IF file[path] = 0
           THEN /\ outcome = "ok"
                /\ Commit([conns EXCEPT ![i] =
                              handleDeleteDone([r EXCEPT !.err = "ENOENT"], "ENOENT")],
                          file, ino, hist)
           ELSE IF outcome = "ok"
           THEN Commit([moved EXCEPT ![i] = handleDeleteDone(r, "")],
                       [file EXCEPT ![path] = 0],
                       IF open
                       THEN [ino EXCEPT ![FreeOrphan] = ino[n], ![n] = <<>>]
                       ELSE ino,
                       SettledDelete(hist, conns, i, r.code))
           ELSE Commit([conns EXCEPT ![i] =
                           handleDeleteDone([r EXCEPT !.err = outcome], outcome)],
                       file, ino, hist)

(* --------------------------- specification ---------------------------- *)

Next ==
    \/ \E outcome \in {"ok", "err"} : setupCache(outcome)
    \/ startServer
    \/ \E i \in Slots, method \in Methods, url \in Urls :
          \E body \in IF method = "PUT" THEN Bodies ELSE {<<>>} :
              Request(i, method, url, body)
    \/ \E i \in Slots : Close(i)
    \/ \E i \in Slots, outcome \in {"ok", "EACCES"} : GetOpen(i, outcome)
    \/ \E i \in Slots, outcome \in {"ok", "EIO"} : GetRead(i, outcome)
    \/ \E i \in Slots : PutChunk(i)
    \/ \E i \in Slots : PutBodyError(i)
    \/ \E i \in Slots : PutBodyEnd(i)
    \/ \E i \in Slots, outcome \in {"ok", "EACCES"} : PutOpen(i, outcome)
    \/ \E i \in Slots, outcome \in {"ok", "ENOSPC"} : PutWrite(i, outcome)
    \/ \E i \in Slots, outcome \in {"ok", "EACCES"} : DeleteUnlink(i, outcome)

Spec == Init /\ [][Next]_vars

\* what the event loop runs for the request in slot i: the completion of its
\* pending file operation, the next event of its body stream, its departure
Step(i) ==
    \/ Close(i)
    \/ \E outcome \in {"ok", "EACCES"} : GetOpen(i, outcome)
    \/ \E outcome \in {"ok", "EIO"} : GetRead(i, outcome)
    \/ PutChunk(i)
    \/ PutBodyError(i)
    \/ PutBodyEnd(i)
    \/ \E outcome \in {"ok", "EACCES"} : PutOpen(i, outcome)
    \/ \E outcome \in {"ok", "ENOSPC"} : PutWrite(i, outcome)
    \/ \E outcome \in {"ok", "EACCES"} : DeleteUnlink(i, outcome)

\* Every file operation completes and every body stream ends or fails, and
\* the event loop runs each callback that is ready.
FairSpec == Spec /\ \A i \in Slots : WF_vars(Step(i))

(* ------------------------------ properties ---------------------------- *)

PathOf(c) == getCacheFilePath(c)

\* the bytes stored for code c, when an entry exists
Entry(c) == ino[file[PathOf(c)]]

Present(c) == file[PathOf(c)] # 0

\* slot i holds a finished request that handler m served
DoneBy(i, m) ==
    /\ conns[i].pc = "done"
    /\ conns[i].method = m
    /\ conns[i].code # Null

\* the claims' own reading of "exactly '/' followed by three ASCII digits"
WellFormed(url) == url \in { <<"/", a, b, c>> : a, b, c \in Digits }

\* a GET that began after the last PUT or DELETE on its code had completed,
\* with none in flight, and with none started since
Following(i) == DoneBy(i, "GET") /\ conns[i].quiet

Hit(r) == r.status = 200 /\ r.ctype = "image/jpeg" /\ r.xcache = "HIT"

PlainText(r) == r.ctype = "text/plain" /\ r.text # <<>>

C2_GetAbsentIs404 ==
    \A i \in Slots :
        (DoneBy(i, "GET") /\ conns[i].err = "ENOENT")
            => /\ conns[i].status = 404
               /\ PlainText(conns[i])
               /\ conns[i].xcache # "HIT"

\* C3: after a PUT on C (201) and then a DELETE on C (200), with no later PUT
\* on C, the entry for C is absent and every subsequent GET on C responds 404.
C3_DeleteThenGetIs404 ==
    \A c \in Codes :
        hist[c].kind = "del"
            => /\ ~Present(c)
               /\ \A i \in Slots :
                     (Following(i) /\ conns[i].code = c) => conns[i].status = 404

\* a settled entry that a PUT alone in flight wrote over a settled entry of
\* other bytes
Overwritten(c) == hist[c].kind = "put" /\ hist[c].clean /\ hist[c].over

C5_EmptyPutRefused ==
    [][\A i \in Slots :
          /\ (conns[i].pc = "idle" /\ conns'[i].method = "PUT")
                => (file' = file /\ ino' = ino)
          /\ (/\ conns[i].pc = "body"
              /\ conns[i].body = <<>>
              /\ conns'[i].pc # "body"
              /\ conns'[i].err = "")
                => /\ conns'[i].pc = "done"
                   /\ conns'[i].status = 400
                   /\ PlainText(conns'[i])
                   /\ file' = file
                   /\ ino' = ino]_vars

C5_Witness ==
    \E i \in Slots :
        /\ DoneBy(i, "PUT")
        /\ conns[i].status = 400
        /\ conns[i].body = <<>>
        /\ Present(conns[i].code)
        /\ Len(Entry(conns[i].code)) = MaxBody

\* C6: a DELETE on a code with no entry responds 404 and leaves the cache as
\* it was; a DELETE responds 200 only when an entry existed and this request
\* removed it.
C6_DeleteAbsentIs404 ==
    [][\A i \in Slots :
          (conns[i].pc = "unlink" /\ conns'[i].pc # "unlink")
              => /\ conns'[i].pc = "done"
                 /\ ~Present(conns[i].code)
                       => /\ conns'[i].status = 404
                          /\ PlainText(conns'[i])
                          /\ file' = file
                          /\ ino' = ino
                 /\ conns'[i].status = 200
                       => /\ Present(conns[i].code)
                          /\ file'[PathOf(conns[i].code)] = 0]_vars

C6_Witness ==
    \E i \in Slots :
        /\ DoneBy(i, "DELETE")
        /\ conns[i].status = 404
        /\ \E c \in Codes : Present(c)

\* C7: a request whose path is not exactly '/' and three digits is answered
\* 404 with a plain-text body whatever its method, no handler runs, and the
\* cache is left as it was.
C7_BadPathIs404 ==
    [][\A i \in Slots :
          (conns[i].pc = "idle" /\ conns'[i].pc # "idle" /\ ~WellFormed(conns'[i].url))
              => /\ conns'[i].pc = "done"
                 /\ conns'[i].status = 404
                 /\ PlainText(conns'[i])
                 /\ file' = file
                 /\ ino' = ino
                 /\ hist' = hist]_vars

C7_Witness ==
    \E i \in Slots :
        /\ conns[i].pc = "done"
        /\ conns[i].method = "DELETE"
        /\ conns[i].url = <<"/", "2", "0", "0", "?", "x", "=", "1">>
        /\ conns[i].status = 404
        /\ Present(<<"2", "0", "0">>)

\* C8: a request with a path '/DDD' and a method other than GET, PUT and
\* DELETE is answered 405 with the body 'Method Not Allowed', and the cache
\* is left as it was.
C8_OtherMethodIs405 ==
    [][\A i \in Slots :
          (/\ conns[i].pc = "idle"
           /\ conns'[i].pc # "idle"
           /\ WellFormed(conns'[i].url)
           /\ conns'[i].method \notin {"GET", "PUT", "DELETE"})
              => /\ conns'[i].pc = "done"
                 /\ conns'[i].status = 405
                 /\ conns'[i].ctype = "text/plain"
                 /\ conns'[i].text = <<"Method Not Allowed">>
                 /\ file' = file
                 /\ ino' = ino
                 /\ hist' = hist]_vars

C8_Witness ==
    \E i \in Slots :
        /\ conns[i].pc = "done"
        /\ conns[i].method = "PATCH"
        /\ conns[i].url = <<"/", "2", "0", "0">>
        /\ conns[i].status = 405
        /\ Present(<<"2", "0", "0">>)

\* C9: no error of a request ends the process, and each such error (a missing
\* entry, a failed read, body, write or unlink) is answered with an error
\* status and a plain-text body.
C9_ErrorsAnswered ==
    /\ phase # "Crashed"
    /\ \A i \in Slots :
          (conns[i].pc = "done" /\ conns[i].err # "")
              => /\ conns[i].status >= 400
                 /\ PlainText(conns[i])

\* C10: no request is taken in before the cache directory has been created,
\* and when creating it fails the process exits with a non-zero status and
\* is never serving.
C10_Lifecycle ==
    /\ (phase = "Serving" \/ served > 0 \/ \E i \in Slots : conns[i].pc # "idle")
          => (mkdir = "ok" /\ cacheDir)
    /\ mkdir = "err" => (phase = "Exited" /\ exitCode > 0)

C10_Witness == mkdir = "err" /\ phase = "Exited" /\ ~cacheDir

\* C11: the head of a 200 response is not written before the file has been
\* opened, and a GET whose file cannot be opened for a reason other than a
\* missing file is answered 500 with a plain-text body.
C11_ReadErrorIs500 ==
    \A i \in Slots :
        /\ (conns[i].method = "GET" /\ conns[i].pc = "open")
              => ~headersSent(conns[i])
        /\ (DoneBy(i, "GET") /\ conns[i].err = "EACCES")
              => /\ conns[i].status = 500
                 /\ PlainText(conns[i])

\* C12: a PUT leaves storage as it is until its whole body has arrived: taking
\* the request in and every step of receiving the body change no file, the
\* write starts with the entire body in hand, and a body stream that fails
\* is answered 500 with a plain-text body, nothing of the body being stored.
C12_BodyBeforeStore ==
    [][\A i \in Slots :
          /\ (conns[i].pc = "idle" /\ conns'[i].method = "PUT")
                => (file' = file /\ ino' = ino)
          /\ (conns[i].pc = "body" /\ conns'[i] # conns[i])
                => /\ file' = file
                   /\ ino' = ino
                   /\ conns'[i].pc \in {"body", "wopen", "done"}
                   /\ conns'[i].pc = "wopen" => conns'[i].chunks = conns[i].body
                   /\ conns'[i].err # ""
                         => /\ conns'[i].pc = "done"
                            /\ conns'[i].status = 500
                            /\ PlainText(conns'[i])
                            /\ conns'[i].ended]_vars

C12_Witness ==
    \E i \in Slots :
        /\ DoneBy(i, "PUT")
        /\ conns[i].err = "ECONNRESET"
        /\ conns[i].status = 500
        /\ Len(conns[i].body) = MaxBody
        /\ Present(conns[i].code)
        /\ Len(Entry(conns[i].code)) = 1

\* C13: a PUT answers 201 only in the step in which the last write of
\* fs.writeFile succeeds, answers 500 with a plain-text body when the open or
\* a write fails, and has written no status while the write is still to come
\* or under way.
C13_CreatedAfterWrite ==
    [][\A i \in Slots :
          /\ (conns'[i].method = "PUT" /\ conns'[i].pc \in {"body", "wopen", "write"})
                => ~headersSent(conns'[i])
          /\ (conns[i].pc \in {"wopen", "write"} /\ conns'[i].pc \notin {"wopen", "write"})
                => /\ conns'[i].pc = "done"
                   /\ conns'[i].status \in {201, 500}
                   /\ conns'[i].status = 201
                         => /\ conns'[i].err = ""
                            /\ conns[i].pc = "write"
                            /\ conns[i].pos + WriteChunk >= Len(conns[i].chunks)
                            /\ conns[i].chunks = conns[i].body
                   /\ conns'[i].err # ""
                         => /\ conns'[i].status = 500
                            /\ PlainText(conns'[i])
                            /\ conns'[i].ended
          /\ (conns'[i].method = "PUT" /\ conns'[i].status = 201)
                => conns[i].pc \in {"write", "done"}]_vars

C13_Witness ==
    \E i \in Slots :
        /\ DoneBy(i, "PUT")
        /\ conns[i].err = "ENOSPC"
        /\ conns[i].status = 500
        /\ Len(conns[i].body) = MaxBody
        /\ Present(conns[i].code)
        /\ Len(Entry(conns[i].code)) = 1

\* the body of the one PUT that GET i has raced: of the PUT still in flight
\* on its code, or of the PUT that has completed with 201 since
NewBody(i) ==
    LET c == conns[i].code
    IN  IF MutatorsOn(conns, c) # {}
        THEN conns[CHOOSE j \in MutatorsOn(conns, c) : TRUE].body
        ELSE IF hist[c].kind = "put" THEN hist[c].body ELSE <<>>

\* C14: a GET on C that meets no read error and runs with exactly one PUT on
\* C, a PUT that replaces a settled entry, returns either all the old bytes
\* or all the new bytes, never an empty, truncated or mixed body.
C14_AtomicWrite ==
    \A i \in Slots :
        (/\ DoneBy(i, "GET")
         /\ conns[i].err = ""
         /\ conns[i].base # <<>>
         /\ conns[i].race = "PUT"
         /\ NewBody(i) # <<>>)
            => conns[i].data \in {conns[i].base, NewBody(i)}

\* C15: once every PUT and DELETE on C has completed, the entry of C is what
\* the last of them to complete decides: absent after a DELETE (200), exactly
\* the whole body of that PUT after a PUT (201), whatever ran beside it.
C15_LastWriterWins ==
    \A c \in Codes :
        /\ hist[c].kind = "del" => ~Present(c)
        /\ hist[c].kind = "put" => (Present(c) /\ Entry(c) = hist[c].body)

\* C16: a GET on C that began on a settled entry B, runs with exactly one
\* DELETE on C and no PUT, and meets no error but that of the missing file,
\* answers either 200 with the whole of B or 404, nothing else.
C16_GetRacingDelete ==
    \A i \in Slots :
        (/\ DoneBy(i, "GET")
         /\ conns[i].base # <<>>
         /\ conns[i].race = "DELETE"
         /\ conns[i].err \in {"", "ENOENT"})
            => \/ conns[i].status = 200 /\ conns[i].data = conns[i].base
               \/ conns[i].status = 404

\* C17: every request taken in gets exactly one response: no handler writes a
\* status line on a response that has one (nothing is thrown, a status once
\* written stays), a finished request has a status and an ended response,
\* and every request in flight is finished in the end.
C17_OneResponse ==
    /\ [][\A i \in Slots :
             /\ ~conns'[i].thrown
             /\ phase' # "Crashed"
             /\ conns'[i].pc = "done"
                   => (headersSent(conns'[i]) /\ conns'[i].ended)
             /\ (headersSent(conns[i]) /\ conns'[i].pc # "idle")
                   => conns'[i].status = conns[i].status
             /\ (conns[i].ended /\ conns'[i].pc # "idle")
                   => conns'[i] = conns[i]]_vars
    /\ \A i \in Slots :
          InFlight(conns[i]) ~> (conns[i].pc = "done" /\ conns[i].ended)

C17_Witness ==
    \E i \in Slots :
        /\ DoneBy(i, "GET")
        /\ conns[i].err = "EIO"
        /\ conns[i].status = 200
        /\ conns[i].ended
        /\ Len(conns[i].data) = 1

\* the entry of code c as a client can know it: its bytes, or <<-1>> for none
Cached(c) == IF Present(c) THEN Entry(c) ELSE <<-1>>

\* slot i is the request whose handler ran in this step
Actor(i) ==
    <<conns[i].pc, conns[i].data, conns[i].pos, conns[i].chunks>>'
        # <<conns[i].pc, conns[i].data, conns[i].pos, conns[i].chunks>>

\* a PUT that did not answer 201, alone on its code since it began on the
\* settled entry hist keeps
FailedPut(i) ==
    /\ DoneBy(i, "PUT")
    /\ conns[i].status # 201
    /\ hist[conns[i].code].kind = "none"
    /\ hist[conns[i].code].clean
    /\ hist[conns[i].code].over

\* C18: a step that changes the entry of a code C is a step of a PUT or a
\* DELETE on C, never of a GET or of a request on another code, and a PUT
\* that does not succeed leaves the entry of its code as it found it.
C18_Isolation ==
    [][/\ \A c \in Codes :
             Cached(c)' # Cached(c)
                 => \E i \in Slots :
                       /\ Actor(i)
                       /\ conns[i].code = c
                       /\ conns[i].method \in {"PUT", "DELETE"}
       /\ \A i \in Slots :
             FailedPut(i)'
                 => (Cached(conns[i].code) = hist[conns[i].code].body)']_vars

\* a DELETE on its code, begun on a settled entry, with exactly one other
\* DELETE and no PUT on the code beside it
Duel(r) == r.method = "DELETE" /\ r.base # <<>> /\ r.race = "DELETE"

\* C19: of two DELETEs in flight together on a code whose entry exists, with
\* no PUT beside them, the first to complete answers 200 and the second 404;
\* and for no code are there ever more 200 answers to DELETE than 201
\* answers to PUT.
C19_DeleteOnce ==
    [][/\ \A i \in Slots :
             (conns[i].pc = "unlink" /\ conns'[i].pc = "done" /\ Duel(conns[i]))
                 => IF \E j \in Slots \ {i} : /\ conns[j].pc = "unlink"
                                              /\ conns[j].code = conns[i].code
                    THEN conns'[i].status = 200
                    ELSE conns'[i].status = 404
       /\ \A c \in Codes : tally'[c].del <= tally'[c].put]_vars

====
